---- MODULE Spec2Model ----
(***************************************************************************)
(* The VM-to-assembly translator (phase2_software/08_vm_part2), the        *)
(* two-pass assembler (phase2_software/06_assembler) and the CPU emulator  *)
(* (phase1_hardware/05_computer_architecture) as one state machine:        *)
(* a directory of .vm units is translated, the output is assembled,        *)
(* loaded into ROM and run (Spec, and SpecF for programs with nested and    *)
(* recursive calls); or the units are translated only, by one new          *)
(* VMTranslator after the other (SpecT), or by instances on which          *)
(* translate() may be called again (SpecR).                                *)
(*                                                                         *)
(* Text is modelled as follows.  An input line is the sequence of its      *)
(* whitespace-separated tokens, the comment marker "//" being a token of   *)
(* its own.  An assembly line is a record: an A-instruction [t = "A"] with *)
(* the text of its operand, a label declaration [t = "L"] with the text of *)
(* the label, a C-instruction [t = "C"] with its dest, comp and jump       *)
(* mnemonics, or a comment line [t = "//"] with the tokens of its text.    *)
(* Names are real strings, built with \o and ToString as the f-strings of  *)
(* the source build them.                                                  *)
(***************************************************************************)
EXTENDS Integers, Sequences, FiniteSets, TLC

\* ------------------------------------------------------------------------
\* Assembly text
\* ------------------------------------------------------------------------
AInstr(s) == [t |-> "A", s |-> s]
LInstr(s) == [t |-> "L", s |-> s]
CInstr(d, c, j) == [t |-> "C", dest |-> d, comp |-> c, jump |-> j]
Comment(s) == [t |-> "//", s |-> s]

\* A push that moves SP and stores nothing
PushComp_no_store(c) == << AInstr("SP"), CInstr("M", "M+1", "") >>

\* "@SP / A=M / M=<comp> / @SP / M=M+1": store <comp> at the top, SP++
PushComp(c) ==
  << AInstr("SP"), CInstr("A", "M", ""), CInstr("M", c, ""),
     AInstr("SP"), CInstr("M", "M+1", "") >>

\* A decrement that takes two words off the stack
DecSP_by_two ==
  << AInstr("SP"), CInstr("M", "M-1", ""), CInstr("AM", "M-1", "") >>

\* "@SP / M=M-1 / A=M": SP--, A = SP
DecSP == << AInstr("SP"), CInstr("M", "M-1", ""), CInstr("A", "M", "") >>

RECURSIVE Repeat(_, _)
Repeat(s, n) == IF n <= 0 THEN << >> ELSE s \o Repeat(s, n - 1)

\* ------------------------------------------------------------------------
\* CodeGenerator (08_vm_part2/code_generator.py).  The generator state is
\* the record g = [label_counter, return_counter, current_file,
\* current_function]; every generate_* operator returns the text it emits
\* (asm), the state after the call (g) and the exception it raised (err,
\* "" when none).  asm = None models a Python function that falls off its
\* end without a return statement.
\* ------------------------------------------------------------------------
None == [t |-> "None"]

CodeGenerator_init ==
  [label_counter |-> 0, return_counter |-> 0,
   current_file |-> "default", current_function |-> ""]

Ret(asm, g) == [asm |-> asm, g |-> g, err |-> ""]
\* An exception raised after the label counter was advanced
Raise_counting(e, g) ==
  [asm |-> << >>, g |-> [g EXCEPT !.label_counter = @ + 1], err |-> e]

Raise(e, g) == [asm |-> << >>, g |-> g, err |-> e]

init ==
  << Comment(<< "=====", "Bootstrap:", "Initialize", "VM", "State", "=====" >>),
     AInstr("256"), CInstr("D", "A", ""), AInstr("SP"), CInstr("M", "D", ""),
     Comment(<< >>),
     Comment(<< "Call", "Sys.init" >>),
     AInstr("Sys.init$ret.bootstrap"), CInstr("D", "A", "") >>
  \o PushComp("D")
  \o Repeat(PushComp("0"), 4)
  \o << AInstr("SP"), CInstr("D", "M", ""), AInstr("5"),
        CInstr("D", "D-A", ""), AInstr("ARG"), CInstr("M", "D", "") >>
  \o << AInstr("SP"), CInstr("D", "M", ""), AInstr("LCL"),
        CInstr("M", "D", "") >>
  \o << AInstr("Sys.init"), CInstr("", "0", "JMP"),
        LInstr("Sys.init$ret.bootstrap") >>

\* A binary operation that takes its operands in the other order
BinaryComp_swapped(operation) ==
  CASE operation = "add" -> "D+M"
    [] operation = "sub" -> "D-M"
    [] operation = "and" -> "D&M"
    [] operation = "or"  -> "D|M"

BinaryComp(operation) ==
  CASE operation = "add" -> "D+M"
    [] operation = "sub" -> "M-D"
    [] operation = "and" -> "D&M"
    [] operation = "or"  -> "D|M"

CompareJump(operation) ==
  CASE operation = "eq" -> "JEQ"
    [] operation = "gt" -> "JGT"
    [] operation = "lt" -> "JLT"

generate_arithmetic(g, operation) ==
  IF operation \in {"add", "sub", "and", "or"} THEN
    Ret(<< Comment(<< operation >>) >>
        \o DecSP \o << CInstr("D", "M", "") >>
        \o DecSP \o << CInstr("M", BinaryComp(operation), "") >>
        \o << AInstr("SP"), CInstr("M", "M+1", "") >>, g)
  ELSE IF operation \in {"neg", "not"} THEN
    Ret(<< Comment(<< operation >>) >>
        \o DecSP
        \o << CInstr("M", IF operation = "neg" THEN "-M" ELSE "!M", "") >>
        \o << AInstr("SP"), CInstr("M", "M+1", "") >>, g)
  ELSE IF operation \in {"eq", "gt", "lt"} THEN
    LET label_true == "TRUE_" \o ToString(g.label_counter)
        label_end  == "END_" \o ToString(g.label_counter)
    IN Ret(<< Comment(<< operation >>) >>
           \o DecSP \o << CInstr("D", "M", "") >>
           \o DecSP \o << CInstr("D", "M-D", "") >>
           \o << AInstr(label_true), CInstr("", "D", CompareJump(operation)) >>
           \o << AInstr("SP"), CInstr("A", "M", ""), CInstr("M", "0", ""),
                 AInstr(label_end), CInstr("", "0", "JMP") >>
           \o << LInstr(label_true),
                 AInstr("SP"), CInstr("A", "M", ""), CInstr("M", "-1", "") >>
           \o << LInstr(label_end), AInstr("SP"), CInstr("M", "M+1", "") >>,
           [g EXCEPT !.label_counter = @ + 1])
  ELSE Ret(None, g)

pointer_map(segment) ==
  CASE segment = "local"    -> "LCL"
    [] segment = "argument" -> "ARG"
    [] segment = "this"     -> "THIS"
    [] segment = "that"     -> "THAT"

\* A pointer segment whose two cells are taken for each other
pointer_symbol_swapped(index) == IF index = 0 THEN "THAT" ELSE "THIS"

\* "pointer = 'THIS' if index == 0 else 'THAT'"
pointer_symbol(index) == IF index = 0 THEN "THIS" ELSE "THAT"

\* A push that stores the word and leaves SP where it was
PushD_keep_SP == << AInstr("SP"), CInstr("A", "M", ""), CInstr("M", "D", "") >>

\* "@SP / A=M / M=D / @SP / M=M+1": RAM[SP] = D, SP++
PushD == << AInstr("SP"), CInstr("A", "M", ""), CInstr("M", "D", ""),
            AInstr("SP"), CInstr("M", "M+1", "") >>

\* A load that takes the address of the cell for its content
LoadCell_address == << CInstr("A", "D+A", ""), CInstr("D", "A", "") >>

\* "A=D+A / D=M": D = RAM[base + index]
LoadCell == << CInstr("A", "D+A", ""), CInstr("D", "M", "") >>

SegComment(op, segment, index) ==
  Comment(<< op, segment, ToString(index) >>)

generate_push(g, segment, index) ==
  IF segment = "constant" THEN
    Ret(<< SegComment("push", segment, index),
           AInstr(ToString(index)), CInstr("D", "A", "") >> \o PushD, g)
  ELSE IF segment \in {"local", "argument", "this", "that"} THEN
    Ret(<< SegComment("push", segment, index),
           AInstr(pointer_map(segment)), CInstr("D", "M", ""),
           AInstr(ToString(index)) >> \o LoadCell \o PushD, g)
  ELSE IF segment = "temp" THEN
    Ret(<< SegComment("push", segment, index),
           AInstr(ToString(5 + index)), CInstr("D", "M", "") >> \o PushD, g)
  ELSE IF segment = "pointer" THEN
    Ret(<< SegComment("push", segment, index),
           AInstr(pointer_symbol(index)),
           CInstr("D", "M", "") >> \o PushD, g)
  ELSE IF segment = "static" THEN
    Ret(<< SegComment("push", segment, index),
           AInstr(g.current_file \o "." \o ToString(index)),
           CInstr("D", "M", "") >> \o PushD, g)
  ELSE Ret(None, g)

PopD == DecSP \o << CInstr("D", "M", "") >>

generate_pop(g, segment, index) ==
  IF segment = "constant" THEN Raise("ValueError", g)
  ELSE IF segment \in {"local", "argument", "this", "that"} THEN
    Ret(<< SegComment("pop", segment, index),
           AInstr(pointer_map(segment)), CInstr("D", "M", ""),
           AInstr(ToString(index)), CInstr("D", "D+A", ""),
           AInstr("R13"), CInstr("M", "D", "") >>
        \o PopD
        \o << AInstr("R13"), CInstr("A", "M", ""), CInstr("M", "D", "") >>, g)
  ELSE IF segment = "temp" THEN
    Ret(<< SegComment("pop", segment, index) >> \o PopD
        \o << AInstr(ToString(5 + index)), CInstr("M", "D", "") >>, g)
  ELSE IF segment = "pointer" THEN
    Ret(<< SegComment("pop", segment, index) >> \o PopD
        \o << AInstr(pointer_symbol(index)), CInstr("M", "D", "") >>, g)
  ELSE IF segment = "static" THEN
    Ret(<< SegComment("pop", segment, index) >> \o PopD
        \o << AInstr(g.current_file \o "." \o ToString(index)),
              CInstr("M", "D", "") >>, g)
  ELSE Ret(None, g)

\* A label that is emitted as the command names it
unscoped_label(g, label) == label

scoped_label(g, label) == g.current_function \o "$" \o label

generate_label(g, label) ==
  Ret(<< Comment(<< "label", label >>), LInstr(scoped_label(g, label)) >>, g)

generate_goto(g, label) ==
  Ret(<< Comment(<< "goto", label >>),
         AInstr(scoped_label(g, label)), CInstr("", "0", "JMP") >>, g)

\* An if-goto that branches on positive words only
generate_if_goto_JGT(g, label) ==
  Ret(<< Comment(<< "if-goto", label >>) >> \o PopD
      \o << AInstr(scoped_label(g, label)), CInstr("", "D", "JGT") >>, g)

generate_if_goto(g, label) ==
  Ret(<< Comment(<< "if-goto", label >>) >> \o PopD
      \o << AInstr(scoped_label(g, label)), CInstr("", "D", "JNE") >>, g)

\* A function that reserves its locals by pushing what D holds
generate_function_push_D(g, name, n_locals) ==
  Ret(<< Comment(<< "function", name, ToString(n_locals) >>),
         LInstr(name) >>
      \o Repeat(PushComp("D"), n_locals),
      [g EXCEPT !.current_function = name])

generate_function(g, name, n_locals) ==
  Ret(<< Comment(<< "function", name, ToString(n_locals) >>),
         LInstr(name) >>
      \o Repeat(PushComp("0"), n_locals),
      [g EXCEPT !.current_function = name])

\* A return label that does not name the call site
return_label_uncounted(g, function_name) == function_name \o "$ret"

return_label(g, function_name) ==
  function_name \o "$ret." \o ToString(g.return_counter)

\* A push of the address of a pointer in place of the word it holds
PushCell_address(sym) == << AInstr(sym), CInstr("D", "A", "") >> \o PushD

\* "@segment / D=M" and the push of D
PushCell(sym) == << AInstr(sym), CInstr("D", "M", "") >> \o PushD

generate_call(g, function_name, n_args) ==
  Ret(<< Comment(<< "call", function_name, ToString(n_args) >>) >>
      \o << AInstr(return_label(g, function_name)), CInstr("D", "A", "") >>
      \o PushD
      \o PushCell("LCL") \o PushCell("ARG")
      \o PushCell("THIS") \o PushCell("THAT")
      \o << AInstr("SP"), CInstr("D", "M", ""), AInstr(ToString(n_args + 5)),
            CInstr("D", "D-A", ""), AInstr("ARG"), CInstr("M", "D", "") >>
      \o << AInstr("SP"), CInstr("D", "M", ""), AInstr("LCL"),
            CInstr("M", "D", "") >>
      \o << AInstr(function_name), CInstr("", "0", "JMP") >>
      \o << LInstr(return_label(g, function_name)) >>,
      [g EXCEPT !.return_counter = @ + 1])

\* A restore that reads the saved pointers in the order they were pushed
Restore_pushed_order(offset, segment) ==
  << AInstr("R13"), CInstr("D", "M", ""), AInstr(ToString(5 - offset)),
     CInstr("A", "D-A", ""), CInstr("D", "M", ""),
     AInstr(segment), CInstr("M", "D", "") >>

\* "THAT/THIS/ARG/LCL = *(FRAME - offset)"
Restore(offset, segment) ==
  << AInstr("R13"), CInstr("D", "M", ""), AInstr(ToString(offset)),
     CInstr("A", "D-A", ""), CInstr("D", "M", ""),
     AInstr(segment), CInstr("M", "D", "") >>

\* SP = ARG, one word short
RestoreSP_at_ARG ==
  << AInstr("ARG"), CInstr("D", "M", ""), AInstr("SP"), CInstr("M", "D", "") >>

\* "SP = ARG + 1"
RestoreSP ==
  << AInstr("ARG"), CInstr("D", "M+1", ""), AInstr("SP"), CInstr("M", "D", "") >>

\* A store of the return value one word below the first argument
StoreBelowARG ==
  << AInstr("ARG"), CInstr("A", "M-1", ""), CInstr("M", "D", "") >>

\* "@ARG / A=M / M=D": *ARG = D, the return value
StoreAtARG == << AInstr("ARG"), CInstr("A", "M", ""), CInstr("M", "D", "") >>

\* A return that stores the return value at *ARG first and reads the
\* return address from the frame afterwards
generate_return_late_ret(g) ==
  Ret(<< Comment(<< "return" >>) >>
      \o << AInstr("LCL"), CInstr("D", "M", ""),
            AInstr("R13"), CInstr("M", "D", "") >>
      \o PopD \o << AInstr("ARG"), CInstr("A", "M", ""), CInstr("M", "D", "") >>
      \o << AInstr("R13"), CInstr("D", "M", ""),
            AInstr("5"), CInstr("A", "D-A", ""), CInstr("D", "M", ""),
            AInstr("R14"), CInstr("M", "D", "") >>
      \o RestoreSP
      \o Restore(1, "THAT") \o Restore(2, "THIS")
      \o Restore(3, "ARG") \o Restore(4, "LCL")
      \o << AInstr("R14"), CInstr("A", "M", ""), CInstr("", "0", "JMP") >>,
      g)

generate_return(g) ==
  Ret(<< Comment(<< "return" >>) >>
      \o << AInstr("LCL"), CInstr("D", "M", ""),
            AInstr("R13"), CInstr("M", "D", "") >>
      \o << AInstr("5"), CInstr("A", "D-A", ""), CInstr("D", "M", ""),
            AInstr("R14"), CInstr("M", "D", "") >>
      \o PopD \o StoreAtARG
      \o RestoreSP
      \o Restore(1, "THAT") \o Restore(2, "THIS")
      \o Restore(3, "ARG") \o Restore(4, "LCL")
      \o << AInstr("R14"), CInstr("A", "M", ""), CInstr("", "0", "JMP") >>,
      g)

generate(g, command) ==
  CASE command.type = "arithmetic" -> generate_arithmetic(g, command.operation)
    [] command.type = "push" -> generate_push(g, command.segment, command.index)
    [] command.type = "pop" -> generate_pop(g, command.segment, command.index)
    [] command.type = "label" -> generate_label(g, command.label)
    [] command.type = "goto" -> generate_goto(g, command.label)
    [] command.type = "if-goto" -> generate_if_goto(g, command.label)
    [] command.type = "function" ->
         generate_function(g, command.name, command.nLocals)
    [] command.type = "call" -> generate_call(g, command.name, command.nArgs)
    [] command.type = "return" -> generate_return(g)
    [] OTHER -> Ret(None, g)

\* ------------------------------------------------------------------------
\* Parser (08_vm_part2/parser.py)
\* ------------------------------------------------------------------------

\* The integers whose decimal text occurs in the modelled inputs.
NumeralValues == (-1 .. 8) \cup {13, 2048, 32767}

\* int(s): the integer a token denotes; ok = FALSE models ValueError.
int(s) ==
  IF \E n \in NumeralValues : ToString(n) = s
  THEN [ok |-> TRUE, v |-> CHOOSE n \in NumeralValues : ToString(n) = s]
  ELSE [ok |-> FALSE, v |-> 0]

Parsed(c) == [cmd |-> c, err |-> ""]
ParseFail(e) == [cmd |-> None, err |-> e]

\* parts[i] of the source is parts[i + 1] here (sequences start at 1).
parse_command(parts) ==
  LET cmd_type == parts[1]
      n == Len(parts)
  IN
  IF cmd_type \in {"add", "sub", "neg", "eq", "gt", "lt", "and", "or", "not"}
  THEN Parsed([type |-> "arithmetic", operation |-> cmd_type])
  ELSE IF cmd_type \in {"push", "pop"} THEN
    IF n < 3 THEN ParseFail("IndexError")
    ELSE IF ~int(parts[3]).ok THEN ParseFail("ValueError")
    ELSE Parsed([type |-> cmd_type, segment |-> parts[2],
                 index |-> int(parts[3]).v])
  ELSE IF cmd_type \in {"label", "goto", "if-goto"} THEN
    IF n < 2 THEN ParseFail("IndexError")
    ELSE Parsed([type |-> cmd_type, label |-> parts[2]])
  ELSE IF cmd_type = "function" THEN
    IF n < 3 THEN ParseFail("IndexError")
    ELSE IF ~int(parts[3]).ok THEN ParseFail("ValueError")
    ELSE Parsed([type |-> "function", name |-> parts[2],
                 nLocals |-> int(parts[3]).v])
  ELSE IF cmd_type = "call" THEN
    IF n < 3 THEN ParseFail("IndexError")
    ELSE IF ~int(parts[3]).ok THEN ParseFail("ValueError")
    ELSE Parsed([type |-> "call", name |-> parts[2],
                 nArgs |-> int(parts[3]).v])
  ELSE IF cmd_type = "return" THEN Parsed([type |-> "return"])
  ELSE ParseFail("ValueError")

\* line.split('//')[0].split(): the tokens before the first comment marker
RECURSIVE BeforeComment(_)
BeforeComment(line) ==
  IF line = << >> \/ Head(line) = "//" THEN << >>
  ELSE << Head(line) >> \o BeforeComment(Tail(line))

\* A line holds a command iff it is not blank and does not start with "//".
IsCommandLine(line) == line # << >> /\ Head(line) # "//"

has_more_commands(lines, current_line) == current_line < Len(lines)

\* advance(): skips blank and comment lines; at the first other line parses
\* it into current_command and stops.  When only blank and comment lines
\* are left the loop runs out and current_command keeps its old value.
RECURSIVE advance(_, _, _)
advance(lines, current_line, current_command) ==
  IF ~has_more_commands(lines, current_line)
  THEN [current_line |-> current_line, current_command |-> current_command,
        err |-> ""]
  ELSE LET line == lines[current_line + 1] IN
       IF ~IsCommandLine(line)
       THEN advance(lines, current_line + 1, current_command)
       ELSE LET r == parse_command(BeforeComment(line)) IN
            [current_line |-> current_line + 1,
             current_command |-> IF r.err = "" THEN r.cmd ELSE current_command,
             err |-> r.err]

\* ------------------------------------------------------------------------
\* State
\* ------------------------------------------------------------------------
VARIABLES
  vm_files,         \* VMTranslator.vm_files: the units [stem, lines], sorted
  runs_left,        \* translator instances the caller is still to create
  phase,            \* where the caller stands: "start", "ready" (translator
                    \* constructed), "open" (in translate, between units),
                    \* "unit" (in the loop over a unit), "closed", "failed",
                    \* "assembled", "asm_failed", "run"
  code_gen,         \* VMTranslator.code_gen: the CodeGenerator's fields
  unit,             \* number of units of vm_files started by translate()
  current_line,     \* Parser.current_line
  current_command,  \* Parser.current_command
  out,              \* the output file: the sequence of writes made to it
  error,            \* the exception that ended translate(), "" when none
  prev_out,         \* the output file as the previous instance left it
  stream,           \* the output stream of translate(): the calls of open()
                    \* made by the instance, and whether the file is open
  symbols,          \* Assembler.symbol_table.symbols
  block_addr,       \* per write of the output file, the ROM address at
                    \* which its instructions start; last, the program's end
  rom,              \* ROM.memory[0 .. Len(rom)-1]: the loaded program
  A, D, PC,         \* CPU registers
  ram,              \* RAM.memory: the cells that are not 0
  cycles,           \* cycles executed by CPU.run
  hist              \* the machine state observed at each command boundary

vars == << vm_files, runs_left, phase, code_gen, unit, current_line,
           current_command, out, error, prev_out, stream, symbols,
           block_addr, rom, A, D, PC, ram, cycles, hist >>

tvars == << code_gen, unit, current_line, current_command, out, error,
            stream >>
cpuvars == << symbols, block_addr, rom, A, D, PC, ram, cycles, hist >>

\* ------------------------------------------------------------------------
\* VMTranslator (08_vm_part2/vm_translator.py)
\* ------------------------------------------------------------------------
Write(src, asm) == [src |-> src, asm |-> asm]

\* No stream yet: the instance has not called open()
NoStream == [opens |-> 0, is_open |-> FALSE]

\* "with open(self.output_file, 'w') as out": entering the block opens the
\* file
with_enter(s) == [opens |-> s.opens + 1, is_open |-> TRUE]

\* A block that is left without closing the file
with_exit_leaking(s) == s

\* Leaving the with-block, at its end or by an exception, closes the file
with_exit(s) == [s EXCEPT !.is_open = FALSE]

\* A file name is modelled by the pieces that ".vm" separates in it
\* (name.split('.vm')): "Main.vm" is << "Main", "" >>.
RECURSIVE Join(_, _)
Join(pieces, sep) ==
  IF Len(pieces) = 1 THEN pieces[1]
  ELSE pieces[1] \o sep \o Join(Tail(pieces), sep)

\* os.path.basename(vm_file) of a unit
filename(u) == Join(u.pieces, ".vm")

\* name.replace('.vm', ''): every occurrence of ".vm" is removed
replace_vm(pieces) == Join(pieces, "")

FileHeader(u) ==
  << Comment(<< >>), Comment(<< "=====", "File:", filename(u), "=====" >>) >>

\* A VMTranslator whose CodeGenerator keeps the counters of the instance
\* before it (counters held by the class, not by the instance)
VMTranslator_init_shared_counters ==
  /\ phase \in {"start", "closed", "failed"}
  /\ runs_left > 0
  /\ runs_left' = runs_left - 1
  /\ phase' = IF vm_files = << >> THEN "failed" ELSE "ready"
  /\ code_gen' = [CodeGenerator_init EXCEPT
                    !.label_counter = code_gen.label_counter,
                    !.return_counter = code_gen.return_counter]
  /\ prev_out' = out
  /\ error' = IF vm_files = << >> THEN "ValueError" ELSE ""
  /\ unit' = 0
  /\ current_line' = 0
  /\ current_command' = None
  /\ stream' = NoStream
  /\ UNCHANGED << vm_files, out >>
  /\ UNCHANGED cpuvars

\* VMTranslator(input_path): a new instance with a new CodeGenerator
VMTranslator_init ==
  /\ phase \in {"start", "closed", "failed"}
  /\ runs_left > 0
  /\ runs_left' = runs_left - 1
  /\ phase' = IF vm_files = << >> THEN "failed" ELSE "ready"
  /\ code_gen' = CodeGenerator_init
  /\ prev_out' = out
  /\ error' = IF vm_files = << >> THEN "ValueError" ELSE ""
  /\ unit' = 0
  /\ current_line' = 0
  /\ current_command' = None
  /\ stream' = NoStream
  /\ UNCHANGED << vm_files, out >>
  /\ UNCHANGED cpuvars

\* translate(): open(output_file, 'w') truncates the file; the bootstrap
\* is written
translate_open ==
  /\ phase = "ready"
  /\ phase' = "open"
  /\ stream' = with_enter(stream)
  /\ out' = << Write("init", init) >>
  /\ UNCHANGED << vm_files, runs_left, code_gen, unit, current_line,
                  current_command, error, prev_out >>
  /\ UNCHANGED cpuvars

UnitDone ==
  \/ phase = "open"
  \/ /\ phase = "unit"
     /\ ~has_more_commands(vm_files[unit].lines, current_line)

\* for vm_file in self.vm_files: current_file, header, Parser(vm_file)
translate_unit ==
  /\ UnitDone
  /\ unit < Len(vm_files)
  /\ unit' = unit + 1
  /\ phase' = "unit"
  /\ code_gen' = [code_gen EXCEPT
                    !.current_file = replace_vm(vm_files[unit + 1].pieces)]
  /\ out' = Append(out, Write("header", FileHeader(vm_files[unit + 1])))
  /\ current_line' = 0
  /\ current_command' = None
  /\ UNCHANGED << vm_files, runs_left, error, prev_out, stream >>
  /\ UNCHANGED cpuvars

\* one iteration of "while parser.has_more_commands()"
translate_step ==
  /\ phase = "unit"
  /\ has_more_commands(vm_files[unit].lines, current_line)
  /\ LET p == advance(vm_files[unit].lines, current_line, current_command)
         r == generate(code_gen, p.current_command)
     IN
     /\ current_line' = p.current_line
     /\ current_command' = p.current_command
     /\ IF p.err # ""
        THEN /\ phase' = "failed"
             /\ error' = p.err
             /\ UNCHANGED << code_gen, out >>
        ELSE IF p.current_command = None
        THEN UNCHANGED << phase, error, code_gen, out >>
        ELSE IF r.err # ""
        THEN /\ phase' = "failed"
             /\ error' = r.err
             /\ code_gen' = r.g
             /\ UNCHANGED out
        ELSE IF r.asm = None
        THEN /\ phase' = "failed"      \* out.write(None)
             /\ error' = "TypeError"
             /\ code_gen' = r.g
             /\ UNCHANGED out
        ELSE /\ out' = Append(out, Write("generate", r.asm))
             /\ code_gen' = r.g
             /\ UNCHANGED << phase, error >>
  /\ stream' = IF phase' = "failed" THEN with_exit(stream) ELSE stream
  /\ UNCHANGED << vm_files, runs_left, unit, prev_out >>
  /\ UNCHANGED cpuvars

\* translate() is called again on the instance that has translated: the
\* file is opened and truncated again, the CodeGenerator is the one the
\* instance was constructed with
translate_again ==
  /\ phase \in {"closed", "failed"}
  /\ stream.opens > 0
  /\ runs_left > 0
  /\ runs_left' = runs_left - 1
  /\ phase' = "open"
  /\ prev_out' = out
  /\ stream' = with_enter(NoStream)
  /\ out' = << Write("init", init) >>
  /\ error' = ""
  /\ unit' = 0
  /\ current_line' = 0
  /\ current_command' = None
  /\ UNCHANGED << vm_files, code_gen >>
  /\ UNCHANGED cpuvars

\* the with-block is left after the last unit: the file is closed
translate_close ==
  /\ UnitDone
  /\ unit = Len(vm_files)
  /\ phase' = "closed"
  /\ stream' = with_exit(stream)
  /\ UNCHANGED << vm_files, runs_left, code_gen, unit, current_line,
                  current_command, out, error, prev_out >>
  /\ UNCHANGED cpuvars

\* ------------------------------------------------------------------------
\* Assembler (06_assembler/assembler.py)
\* ------------------------------------------------------------------------
SymbolTable_init ==
  [s \in {"R0", "R1", "R2", "R3", "R4", "R5", "R6", "R7", "R8", "R9", "R10",
          "R11", "R12", "R13", "R14", "R15", "SP", "LCL", "ARG", "THIS",
          "THAT", "SCREEN", "KBD"} |->
     CASE s \in {"R0", "SP"} -> 0
       [] s \in {"R1", "LCL"} -> 1
       [] s \in {"R2", "ARG"} -> 2
       [] s \in {"R3", "THIS"} -> 3
       [] s \in {"R4", "THAT"} -> 4
       [] s = "R5" -> 5   [] s = "R6" -> 6   [] s = "R7" -> 7
       [] s = "R8" -> 8   [] s = "R9" -> 9   [] s = "R10" -> 10
       [] s = "R11" -> 11 [] s = "R12" -> 12 [] s = "R13" -> 13
       [] s = "R14" -> 14 [] s = "R15" -> 15
       [] s = "SCREEN" -> 16384
       [] s = "KBD" -> 24576]

comp_table ==
  ("0" :> 42) @@ ("1" :> 63) @@ ("-1" :> 58) @@ ("D" :> 12) @@ ("A" :> 48)
  @@ ("!D" :> 13) @@ ("!A" :> 49) @@ ("-D" :> 15) @@ ("-A" :> 51)
  @@ ("D+1" :> 31) @@ ("A+1" :> 55) @@ ("D-1" :> 14) @@ ("A-1" :> 50)
  @@ ("D+A" :> 2) @@ ("D-A" :> 19) @@ ("A-D" :> 7) @@ ("D&A" :> 0)
  @@ ("D|A" :> 21) @@ ("M" :> 112) @@ ("!M" :> 113) @@ ("-M" :> 115)
  @@ ("M+1" :> 119) @@ ("M-1" :> 114) @@ ("D+M" :> 66) @@ ("D-M" :> 83)
  @@ ("M-D" :> 71) @@ ("D&M" :> 64) @@ ("D|M" :> 85)

dest_table ==
  ("" :> 0) @@ ("M" :> 1) @@ ("D" :> 2) @@ ("MD" :> 3) @@ ("A" :> 4)
  @@ ("AM" :> 5) @@ ("AD" :> 6) @@ ("AMD" :> 7)

jump_table ==
  ("" :> 0) @@ ("JGT" :> 1) @@ ("JEQ" :> 2) @@ ("JGE" :> 3) @@ ("JLT" :> 4)
  @@ ("JNE" :> 5) @@ ("JLE" :> 6) @@ ("JMP" :> 7)

\* '0' + format(int(address), '015b') read as a number
generate_a_instruction(address) == address

\* '111' + comp_bits + dest_bits + jump_bits read as a number
generate_c_instruction(dest, comp, jump) ==
  57344 + comp_table[comp] * 64 + dest_table[dest] * 8 + jump_table[jump]

\* The integers whose decimal text the generator can put after "@": the
\* indices and counts of the input, 5 + index and n_args + 5, and the
\* literals of the fixed sequences.
AsmNumeralValues ==
  NumeralValues \cup {n + 5 : n \in NumeralValues} \cup {1, 2, 3, 4, 5, 256}

Numeral == [n \in AsmNumeralValues |-> ToString(n)]

\* symbol.isdigit()
isdigit(s) == \E n \in AsmNumeralValues : n >= 0 /\ Numeral[n] = s

\* _is_valid_symbol: not empty, no leading digit, no character outside
\* [A-Za-z0-9_.$:].  Of the texts of the model the empty text and the
\* numerals (a leading digit or a minus sign) are invalid.
is_valid_symbol(s) ==
  /\ s # ""
  /\ ~ \E n \in AsmNumeralValues : Numeral[n] = s

\* The output file as the assembler's Parser reads it
RECURSIVE Flatten(_)
Flatten(writes) ==
  IF writes = << >> THEN << >> ELSE Head(writes).asm \o Flatten(Tail(writes))

\* The two passes are loops over the lines of the file; they are written
\* here as what the loops compute, without recursion over the lines.

\* Pass 1 raises at the first label declaration that is invalid or already
\* in the table (predefined, or declared on an earlier line).
BadLabel(lines, i) ==
  /\ lines[i].t = "L"
  /\ \/ ~is_valid_symbol(lines[i].s)
     \/ lines[i].s \in DOMAIN SymbolTable_init
     \/ \E j \in 1 .. i - 1 : lines[j].t = "L" /\ lines[j].s = lines[i].s

\* A pass 1 that gives a label declaration an instruction slot
instruction_address_counting_labels(lines, i) ==
  Cardinality({j \in 1 .. i - 1 : lines[j].t \in {"A", "C", "L"}})

\* instruction_address when pass 1 stands at line i
instruction_address(lines, i) ==
  Cardinality({j \in 1 .. i - 1 : lines[j].t \in {"A", "C"}})

first_pass(lines) ==
  LET bad == {i \in 1 .. Len(lines) : BadLabel(lines, i)}
      decl == {i \in 1 .. Len(lines) : lines[i].t = "L"}
      first == CHOOSE i \in bad : \A j \in bad : i <= j
  IN
  IF bad # {}
  THEN [symbols |-> SymbolTable_init,
        err |-> IF ~is_valid_symbol(lines[first].s)
                THEN "Invalid label name" ELSE "Duplicate label"]
  ELSE [symbols |->
          [s \in {lines[i].s : i \in decl} |->
             instruction_address(lines,
                                 CHOOSE i \in decl : lines[i].s = s)]
          @@ SymbolTable_init,
        err |-> ""]

\* The A-instructions of pass 2 whose operand is neither a number nor in
\* the table after pass 1: the variables
IsVariableUse(lines, table, i) ==
  /\ lines[i].t = "A"
  /\ ~isdigit(lines[i].s)
  /\ lines[i].s \notin DOMAIN table

FirstUse(lines, s) ==
  CHOOSE i \in 1 .. Len(lines) :
    /\ lines[i].t = "A" /\ lines[i].s = s
    /\ \A j \in 1 .. i - 1 : ~(lines[j].t = "A" /\ lines[j].s = s)

\* Pass 2 raises at the first line with a number out of range, an invalid
\* variable name or an unknown mnemonic.
BadLine(lines, table, i) ==
  \/ /\ lines[i].t = "A"
     /\ isdigit(lines[i].s)
     /\ (CHOOSE n \in AsmNumeralValues : Numeral[n] = lines[i].s) > 32767
  \/ /\ IsVariableUse(lines, table, i)
     /\ ~is_valid_symbol(lines[i].s)
  \/ /\ lines[i].t = "C"
     /\ \/ lines[i].comp \notin DOMAIN comp_table
        \/ lines[i].dest \notin DOMAIN dest_table
        \/ lines[i].jump \notin DOMAIN jump_table

second_pass(lines, table) ==
  LET bad == {i \in 1 .. Len(lines) : BadLine(lines, table, i)}
      first == CHOOSE i \in bad : \A j \in bad : i <= j
      variables == {lines[i].s : i \in {j \in 1 .. Len(lines) :
                                          IsVariableUse(lines, table, j)}}
      \* next_variable_address at the first use of each variable
      var_table ==
        [s \in variables |->
           16 + Cardinality({v \in variables :
                               FirstUse(lines, v) < FirstUse(lines, s)})]
      all == var_table @@ table
      code == SelectSeq(lines, LAMBDA l : l.t \in {"A", "C"})
  IN
  IF bad # {}
  THEN [binary_code |-> << >>, symbols |-> table,
        err |-> IF lines[first].t = "C" THEN "Invalid mnemonic"
                ELSE IF isdigit(lines[first].s) THEN "Address out of range"
                ELSE "Invalid symbol name"]
  ELSE [binary_code |->
          [i \in 1 .. Len(code) |->
             IF code[i].t = "C"
             THEN generate_c_instruction(code[i].dest, code[i].comp,
                                         code[i].jump)
             ELSE IF isdigit(code[i].s)
             THEN generate_a_instruction(
                    CHOOSE n \in AsmNumeralValues : Numeral[n] = code[i].s)
             ELSE generate_a_instruction(all[code[i].s])],
        symbols |-> all,
        err |-> ""]

\* Assembler().assemble(asm_file, binary_file)
assemble(lines) ==
  LET p1 == first_pass(lines) IN
  IF p1.err # ""
  THEN [binary_code |-> << >>, symbols |-> p1.symbols, err |-> p1.err]
  ELSE second_pass(lines, p1.symbols)

\* ------------------------------------------------------------------------
\* ALU, RAM, CPU (05_computer_architecture)
\* ------------------------------------------------------------------------
ROM_SIZE == 32768
RAM_SIZE == 32768

to_signed(val) ==
  LET v == val % 65536 IN IF v < 32768 THEN v ELSE v - 65536

to_unsigned(val) == val % 65536

RECURSIVE BitAnd(_, _, _)
BitAnd(x, y, bits) ==
  IF bits = 0 THEN 0
  ELSE (IF x % 2 = 1 /\ y % 2 = 1 THEN 1 ELSE 0)
       + 2 * BitAnd(x \div 2, y \div 2, bits - 1)

RECURSIVE BitOr(_, _, _)
BitOr(x, y, bits) ==
  IF bits = 0 THEN 0
  ELSE (IF x % 2 = 1 \/ y % 2 = 1 THEN 1 ELSE 0)
       + 2 * BitOr(x \div 2, y \div 2, bits - 1)

\* ALU.compute; d and a are register or memory words (0 .. 65535)
compute(comp_bits, d, a) ==
  to_unsigned(
    CASE comp_bits = 42 -> 0
      [] comp_bits = 63 -> 1
      [] comp_bits = 58 -> -1
      [] comp_bits = 12 -> d
      [] comp_bits = 48 -> a
      [] comp_bits = 13 -> -d - 1
      [] comp_bits = 49 -> -a - 1
      [] comp_bits = 15 -> -to_signed(d)
      [] comp_bits = 51 -> -to_signed(a)
      [] comp_bits = 31 -> to_signed(d) + 1
      [] comp_bits = 55 -> to_signed(a) + 1
      [] comp_bits = 14 -> to_signed(d) - 1
      [] comp_bits = 50 -> to_signed(a) - 1
      [] comp_bits = 2  -> to_signed(d) + to_signed(a)
      [] comp_bits = 19 -> to_signed(d) - to_signed(a)
      [] comp_bits = 7  -> to_signed(a) - to_signed(d)
      [] comp_bits = 0  -> BitAnd(d, a, 16)
      [] comp_bits = 21 -> BitOr(d, a, 16))

\* RAM.read / RAM.write; ram holds the cells whose word is not 0
read(mem, address) ==
  IF address \in DOMAIN mem THEN mem[address] ELSE 0

write(mem, address, value) ==
  IF address < 0 \/ address >= RAM_SIZE THEN mem
  ELSE LET v == value % 65536 IN
       [x \in IF v = 0 THEN DOMAIN mem \ {address}
                       ELSE DOMAIN mem \cup {address} |->
          IF x = address THEN v ELSE mem[x]]

should_jump(jump_bits, value) ==
  LET is_negative == (value \div 32768) % 2 = 1
      is_zero == value = 0
      is_positive == ~is_negative /\ ~is_zero
  IN CASE jump_bits = 0 -> FALSE
       [] jump_bits = 7 -> TRUE
       [] jump_bits = 1 -> is_positive
       [] jump_bits = 2 -> is_zero
       [] jump_bits = 3 -> ~is_negative
       [] jump_bits = 4 -> is_negative
       [] jump_bits = 5 -> ~is_zero
       [] jump_bits = 6 -> is_negative \/ is_zero

\* ROM.fetch
fetch(pc) == IF pc < Len(rom) THEN rom[pc + 1] ELSE 0

\* Number of instructions (A or C) among assembly lines
InstrCount(asm) == Cardinality({i \in 1 .. Len(asm) : asm[i].t \in {"A", "C"}})

RECURSIVE BlockAddr(_, _)
BlockAddr(writes, address) ==
  IF writes = << >> THEN << address >>
  ELSE << address >>
       \o BlockAddr(Tail(writes), address + InstrCount(Head(writes).asm))

Boundaries == {block_addr[j] : j \in 1 .. Len(block_addr)}

Snapshot == [pc |-> PC, ram |-> ram, cycles |-> cycles]

Observe == IF PC \in Boundaries THEN Append(hist, Snapshot) ELSE hist

\* Bound on the cycles of one run (max_cycles of CPU.run)
MaxCycles == 4000

\* Assembler().assemble(); cpu.reset(); cpu.load_program(binary)
load_program ==
  /\ phase = "closed"
  /\ LET r == assemble(Flatten(out)) IN
     /\ symbols' = r.symbols
     /\ phase' = IF r.err = "" THEN "run" ELSE "asm_failed"
     /\ error' = r.err
     /\ rom' = r.binary_code
  /\ block_addr' = BlockAddr(out, 0)
  /\ A' = 0 /\ D' = 0 /\ PC' = 0
  /\ ram' = << >>
  /\ cycles' = 0
  /\ hist' = << >>
  /\ UNCHANGED << vm_files, runs_left, code_gen, unit, current_line,
                  current_command, out, prev_out, stream >>

Running == phase = "run" /\ cycles < MaxCycles /\ PC < ROM_SIZE

\* CPU.step on an A-instruction
execute_a_instruction ==
  /\ Running
  /\ PC < Len(rom)
  /\ fetch(PC) < 32768
  /\ A' = fetch(PC) % 32768
  /\ PC' = PC + 1
  /\ cycles' = cycles + 1
  /\ hist' = Observe
  /\ UNCHANGED << D, ram, rom, symbols, block_addr >>
  /\ UNCHANGED << vm_files, runs_left, phase, prev_out >>
  /\ UNCHANGED tvars

\* CPU.step on a C-instruction
execute_c_instruction ==
  /\ Running
  /\ PC < Len(rom)
  /\ fetch(PC) >= 32768
  /\ fetch(PC) # 65535
  /\ LET instruction == fetch(PC)
         a_bit == (instruction \div 4096) % 2
         comp_bits == (instruction \div 64) % 64
         dest_bits == (instruction \div 8) % 8
         jump_bits == instruction % 8
         y == IF a_bit = 1 THEN read(ram, A) ELSE A
         result == compute(comp_bits, D, y)
         newA == IF (dest_bits \div 4) % 2 = 1 THEN result ELSE A
     IN
     /\ A' = newA
     /\ D' = IF (dest_bits \div 2) % 2 = 1 THEN result ELSE D
     /\ ram' = IF dest_bits % 2 = 1 THEN write(ram, newA, result) ELSE ram
     /\ PC' = IF should_jump(jump_bits, result) THEN newA ELSE PC + 1
  /\ cycles' = cycles + 1
  /\ hist' = Observe
  /\ UNCHANGED << rom, symbols, block_addr >>
  /\ UNCHANGED << vm_files, runs_left, phase, prev_out >>
  /\ UNCHANGED tvars

\* Past the loaded program ROM holds zero words, each the instruction @0:
\* the CPU runs through them to the end of ROM, where CPU.run returns.
\* The step stands for all of them; they are not counted in cycles.
run_off ==
  /\ Running
  /\ PC >= Len(rom)
  /\ A' = 0
  /\ PC' = ROM_SIZE
  /\ hist' = Observe
  /\ UNCHANGED << D, ram, rom, symbols, block_addr, cycles >>
  /\ UNCHANGED << vm_files, runs_left, phase, prev_out >>
  /\ UNCHANGED tvars

\* ------------------------------------------------------------------------
\* Inputs
\* ------------------------------------------------------------------------
Blank == << >>
CommentLine == << "//", "note" >>

Push(segment, index) == << "push", segment, ToString(index) >>
Pop(segment, index) == << "pop", segment, ToString(index) >>
Function(name, nLocals) == << "function", name, ToString(nLocals) >>
Call(name, nArgs) == << "call", name, ToString(nArgs) >>

\* A unit: the lines of a file, the pieces of its name, and its stem, the
\* name without the extension
UnitNamed(pieces, lines) ==
  [pieces |-> pieces,
   stem |-> Join(SubSeq(pieces, 1, Len(pieces) - 1), ".vm"),
   lines |-> lines]

Unit(stem, lines) == UnitNamed(<< stem, "" >>, lines)

\* Bounds of the programs that are run
MaxArgs == 2
MaxLocals == 1

\* Ways to put a word on the stack: a constant, or a constant negated or
\* complemented (the words above 32767)
Words ==
  { << Push("constant", 0) >>, << Push("constant", 1) >>,
    << Push("constant", 2) >>, << Push("constant", 32767) >>,
    << Push("constant", 1), << "neg" >> >>,
    << Push("constant", 2), << "neg" >> >>,
    << Push("constant", 32767), << "neg" >> >>,
    << Push("constant", 32767), << "not" >> >> }

\* Line sequences that may follow the last command of a unit
Tails == { << >>, << Blank >>, << CommentLine >> }

\* Sys.init pushes two words and compares them
CompareUnits ==
  { << Unit("Sys", << Function("Sys.init", 0) >> \o x \o y \o << << op >> >>) >> :
      x \in Words, y \in Words, op \in {"eq", "gt", "lt"} }

\* Sys.init pushes two words and combines them, or pushes one word and
\* negates or complements it; or adds 7 and 8
ArithUnits ==
  { << Unit("Sys", << Function("Sys.init", 0) >> \o x \o y \o << << op >> >>) >> :
      x \in Words, y \in Words, op \in {"add", "sub", "and", "or"} }
  \cup
  { << Unit("Sys", << Function("Sys.init", 0) >> \o x \o << << op >> >>) >> :
      x \in Words, op \in {"neg", "not"} }
  \cup
  { << Unit("Sys", << Function("Sys.init", 0), Push("constant", 7),
                      Push("constant", 8), << "add" >> >>) >> }

\* Bodies of a called function with n arguments: each leaves one word more
\* on the stack than it found
Bodies(n) ==
  { << Push("constant", 7) >>,
    << Push("constant", 7), Push("constant", 1), << "add" >> >>,
    << Push("constant", 2), Pop("pointer", 0),
       Push("constant", 3), Pop("pointer", 1), Push("pointer", 0) >>,
    << Push("constant", 5), Pop("local", 0), Push("local", 0) >> }
  \cup (IF n = 0 THEN {}
        ELSE { << Push("argument", n - 1) >>,
               << Push("constant", 4), Pop("argument", 0),
                  Push("argument", 0), << "neg" >> >> })

\* What the caller does to THIS and THAT before it pushes the arguments
Setups ==
  { << >>,
    << Push("constant", 2048), Pop("pointer", 0),
       Push("constant", 13), Pop("pointer", 1) >> }

RECURSIVE Args(_)
Args(n) == IF n = 0 THEN << >> ELSE Args(n - 1) \o << Push("constant", n) >>

\* Main.f is called from Sys.init with n arguments
CallUnitsWith(n) ==
  { << Unit("Main", << CommentLine, Function("Main.f", k) >> \o body
                    \o << << "return" >> >> \o tail),
       Unit("Sys", << Function("Sys.init", 1), Push("constant", 8) >>
                   \o setup \o Args(n)
                   \o << Call("Main.f", n) >> \o tail) >> :
      k \in 0 .. MaxLocals, body \in Bodies(n),
      setup \in Setups, tail \in Tails }

CallUnits == UNION { CallUnitsWith(n) : n \in 0 .. MaxArgs }

\* The cells that are pushed and popped back: segment and index
Cells ==
  ({"local", "argument", "this", "that", "static"} \X {0, 2})
  \cup ({"temp"} \X {0, 7}) \cup ({"pointer"} \X {0, 1})

\* Sys.init has three locals, points THIS and THAT somewhere, stores a word
\* in a cell, then pushes the cell and pops it back
RoundTripUnits ==
  { << Unit("Sys", << Function("Sys.init", 3),
                      Push("constant", 2048), Pop("pointer", 0),
                      Push("constant", 13), Pop("pointer", 1) >>
                   \o word \o << Pop(c[1], c[2]), Push(c[1], c[2]),
                                 Pop(c[1], c[2]) >> \o tail) >> :
      word \in Words, c \in Cells, tail \in Tails }

\* Sys.init pushes a word and branches on it over a push
BranchUnits ==
  { << Unit("Sys", << Function("Sys.init", 0), Push("constant", 8) >>
                   \o word
                   \o << << "if-goto", "L" >>, Push("constant", 1),
                         << "label", "L" >>, Push("constant", 2) >>
                   \o tail) >> :
      word \in Words, tail \in Tails }

\* Sys.init counts static 1 down from n to 0 and static 0 up, in a loop
\* that jumps back to its label and leaves it by a jump forward; Main.vm,
\* when there is one, uses static cells of its own
LoopUnits ==
  { main \o
    << Unit("Sys", << Function("Sys.init", 0),
                      Push("constant", n), Pop("static", 1),
                      << "label", "LOOP" >>,
                      Push("static", 1), Push("constant", 1), << "sub" >>,
                      Pop("static", 1),
                      Push("static", 0), Push("constant", 1), << "add" >>,
                      Pop("static", 0),
                      Push("static", 1), << "if-goto", "LOOP" >>,
                      << "goto", "END" >>,
                      Push("constant", 7),
                      << "label", "END" >>,
                      Push("static", 0) >>) >> :
      n \in 1 .. 2,
      main \in { << >>,
                 << Unit("Main", << Function("Main.f", 0), Push("static", 2),
                                    Push("static", 0), Pop("static", 2),
                                    << "return" >> >>) >> } }

Init ==
  /\ vm_files \in CompareUnits \cup ArithUnits \cup CallUnits
                  \cup RoundTripUnits \cup BranchUnits \cup LoopUnits
  /\ runs_left = 1
  /\ phase = "start"
  /\ code_gen = CodeGenerator_init
  /\ unit = 0
  /\ current_line = 0
  /\ current_command = None
  /\ out = << >>
  /\ error = ""
  /\ prev_out = << >>
  /\ stream = NoStream
  /\ symbols = SymbolTable_init
  /\ block_addr = << >>
  /\ rom = << >>
  /\ A = 0 /\ D = 0 /\ PC = 0
  /\ ram = << >>
  /\ cycles = 0
  /\ hist = << >>

Next ==
  \/ VMTranslator_init
  \/ translate_open
  \/ translate_unit
  \/ translate_step
  \/ translate_close
  \/ load_program
  \/ execute_a_instruction
  \/ execute_c_instruction
  \/ run_off

Spec == Init /\ [][Next]_vars

\* ------------------------------------------------------------------------
\* Programs with nested, repeated and recursive calls
\* ------------------------------------------------------------------------

\* "push constant 5 / pop local i" for the locals 0 .. k-1
RECURSIVE SetLocals(_)
SetLocals(k) ==
  IF k = 0 THEN << >>
  ELSE SetLocals(k - 1) \o << Push("constant", 5), Pop("local", k - 1) >>

\* Sys.init computes g(g(3)), g(x) = f(f(x)), f(x) = x + 1; f and g have
\* k locals, which f sets to 5 before it returns
NestedUnits ==
  { << Unit("Main", << Function("Main.f", k) >> \o SetLocals(k)
                    \o << Push("argument", 0), Push("constant", 1),
                          << "add" >>, << "return" >>,
                          Function("Main.g", k),
                          Push("argument", 0),
                          Call("Main.f", 1), Call("Main.f", 1),
                          << "return" >> >>),
       Unit("Sys", << Function("Sys.init", 0), Push("constant", 3),
                      Call("Main.g", 1), Call("Main.g", 1) >>) >> :
      k \in 0 .. MaxLocals + 1 }

\* Sys.init calls fact(5); fact(n) is 1 for n = 1 and mult(fact(n-1), n)
\* otherwise; mult(x, y) adds x to local 0 y times
FactorialUnits ==
  { << Unit("Main", << Function("Main.fact", 0),
                       Push("argument", 0), Push("constant", 1), << "eq" >>,
                       << "if-goto", "BASE" >>,
                       Push("argument", 0), Push("constant", 1), << "sub" >>,
                       Call("Main.fact", 1),
                       Push("argument", 0),
                       Call("Main.mult", 2),
                       << "return" >>,
                       << "label", "BASE" >>,
                       Push("constant", 1),
                       << "return" >>,
                       Function("Main.mult", 2),
                       Push("argument", 1), Pop("local", 1),
                       << "label", "LOOP" >>,
                       Push("local", 1), << "if-goto", "BODY" >>,
                       << "goto", "END" >>,
                       << "label", "BODY" >>,
                       Push("local", 0), Push("argument", 0), << "add" >>,
                       Pop("local", 0),
                       Push("local", 1), Push("constant", 1), << "sub" >>,
                       Pop("local", 1),
                       << "goto", "LOOP" >>,
                       << "label", "END" >>,
                       Push("local", 0),
                       << "return" >> >>),
       Unit("Sys", << Function("Sys.init", 0), Push("constant", 5),
                      Call("Main.fact", 1) >>) >> }

InitF ==
  /\ vm_files \in NestedUnits \cup FactorialUnits
  /\ runs_left = 1
  /\ phase = "start"
  /\ code_gen = CodeGenerator_init
  /\ unit = 0
  /\ current_line = 0
  /\ current_command = None
  /\ out = << >>
  /\ error = ""
  /\ prev_out = << >>
  /\ stream = NoStream
  /\ symbols = SymbolTable_init
  /\ block_addr = << >>
  /\ rom = << >>
  /\ A = 0 /\ D = 0 /\ PC = 0
  /\ ram = << >>
  /\ cycles = 0
  /\ hist = << >>

SpecF == InitF /\ [][Next]_vars

\* ------------------------------------------------------------------------
\* Texts that are translated only, twice over, each time by a new
\* VMTranslator
\* ------------------------------------------------------------------------
TrailingComment == << "push", "constant", "7", "//", "note" >>

TextLines ==
  { Blank, CommentLine, TrailingComment, << "eq" >>, << "lt" >>,
    << "label", "L" >>, << "goto", "L" >>, << "if-goto", "L" >>,
    Function("Main.f", 0), Function("Main.g", 0), Call("Main.f", 0),
    << "label", "ret.0" >> }

\* Bound on the lines of Main.vm that are chosen freely
MaxLines == 2

\* Number of VMTranslator instances created one after the other
Runs == 2

SeqsUpTo(S, n) == UNION { [1 .. k -> S] : k \in 0 .. n }

\* What Main.vm starts with
Prefixes ==
  { << >>,
    << Function("Main.f", 0), << "label", "L" >>, << "goto", "L" >> >> }

\* The units that follow Main.vm in the directory
SecondUnits ==
  { << >>,
    << Unit("Sys", << Function("Sys.init", 0), << "eq" >>,
                      << "label", "L" >> >>) >>,
    << Unit("Sys", << << "lt" >>, Blank >>) >> }

TextUnits ==
  { << Unit("Main", prefix \o ls) >> \o second :
      prefix \in Prefixes, ls \in SeqsUpTo(TextLines, MaxLines),
      second \in SecondUnits }

\* Lines that are not commands of the VM language, or whose operands the
\* generator does not support
BadLines ==
  { << "push", "constant", "7", "8" >>, << "add", "1" >>,
    << "push", "constant" >>, << "label" >>,
    << "push", "constant", "x" >>, << "function", "Main.g", "x" >>,
    << "bogus" >>,
    << "push", "constant", "-1" >>, << "function", "Main.g", "-1" >>,
    << "call", "Main.f", "-1" >>,
    << "pop", "constant", "0" >>, << "pop", "constant", "7" >>,
    << "push", "heap", "0" >>, << "pop", "heap", "0" >> }

\* One such line in Main.vm or in Sys.vm, after and before commands
ErrorUnits ==
  { << Unit("Main", before \o << bad >> \o after) >> \o second :
      before \in { << >>, << << "eq" >>, Call("Main.f", 0) >> },
      bad \in BadLines,
      after \in { << >>, << TrailingComment >> },
      second \in SecondUnits }
  \cup
  { << Unit("Main", << << "eq" >> >>),
       Unit("Sys", << << "lt" >>, bad >>) >> : bad \in BadLines }

\* Two files that use static cells; the second is Foo.vm.vm or Sys.vm
StaticUnits ==
  { << UnitNamed(<< "Foo", "" >>,
                 << Push("static", 0), Pop("static", 0),
                    Push("static", 2) >> \o tail),
       UnitNamed(pieces, << Pop("static", 0), Push("static", 2) >>) >> :
      pieces \in { << "Foo", "", "" >>, << "Sys", "" >> }, tail \in Tails }

InitT ==
  /\ vm_files \in TextUnits \cup ErrorUnits \cup StaticUnits
  /\ runs_left = Runs
  /\ phase = "start"
  /\ code_gen = CodeGenerator_init
  /\ unit = 0
  /\ current_line = 0
  /\ current_command = None
  /\ out = << >>
  /\ error = ""
  /\ prev_out = << >>
  /\ stream = NoStream
  /\ symbols = SymbolTable_init
  /\ block_addr = << >>
  /\ rom = << >>
  /\ A = 0 /\ D = 0 /\ PC = 0
  /\ ram = << >>
  /\ cycles = 0
  /\ hist = << >>

NextT ==
  \/ VMTranslator_init
  \/ translate_open
  \/ translate_unit
  \/ translate_step
  \/ translate_close

SpecT == InitT /\ [][NextT]_vars

\* The same texts, the caller free to call translate() again on an
\* instance instead of constructing a new one
NextR ==
  \/ VMTranslator_init
  \/ translate_open
  \/ translate_again
  \/ translate_unit
  \/ translate_step
  \/ translate_close

SpecR == InitT /\ [][NextR]_vars

\* ------------------------------------------------------------------------
\* Observing a run: the command whose code the CPU is in, the calls and
\* returns it has gone through
\* ------------------------------------------------------------------------
sp(mem) == read(mem, 0)
top(mem) == read(mem, sp(mem) - 1)

\* The kind of a write: "init", "header", or the opcode of the command
Kind(j) == IF out[j].src = "generate" THEN out[j].asm[1].s[1] ELSE out[j].src

HasBlock(pc) ==
  \E j \in 1 .. Len(out) : block_addr[j] = pc /\ block_addr[j + 1] > pc

\* The write whose first instruction stands at ROM address pc
BlockAt(pc) ==
  CHOOSE j \in 1 .. Len(out) : block_addr[j] = pc /\ block_addr[j + 1] > pc

BlockLen(j) == block_addr[j + 1] - block_addr[j]

KindAt(pc) == IF HasBlock(pc) THEN Kind(BlockAt(pc)) ELSE "none"

\* The CPU has executed exactly the instructions of a block of this kind
\* whose code runs straight from its first to its last instruction
JustRan(kind) ==
  /\ phase = "run"
  /\ hist # << >>
  /\ KindAt(hist[Len(hist)].pc) = kind
  /\ cycles = hist[Len(hist)].cycles + BlockLen(BlockAt(hist[Len(hist)].pc))

\* The entry of hist at which the call was met whose frame the return met
\* at entry i + 1 pops, calls and returns matched last-in first-out: the
\* latest call among the entries 1 .. i after which as many calls as
\* returns were met, pending returns counted in; 0 when there is none (the
\* frame of the bootstrap)
MatchCall(i, pending) ==
  LET calls == { m \in 1 .. i : KindAt(hist[m].pc) = "call" }
      returns == { m \in 1 .. i : KindAt(hist[m].pc) = "return" }
      open == { c \in calls :
                  Cardinality({ r \in returns : r > c }) + pending
                    = Cardinality({ d \in calls : d > c }) }
  IN IF open = {} THEN 0 ELSE CHOOSE c \in open : \A d \in open : d <= c

\* A return has just run, and the call that made its frame is known
Returned == JustRan("return") /\ MatchCall(Len(hist) - 1, 0) > 0

AtCall == hist[MatchCall(Len(hist) - 1, 0)]
AtReturn == hist[Len(hist)]

\* nArgs of the call command of write j
nArgsOf(j) == int(out[j].asm[1].s[3]).v

\* The command of write j, as its leading comment line names it
CommandOf(j) == out[j].asm[1].s

\* Words a command adds to the stack: pushed minus popped
DeltaCmd(c) ==
  CASE c[1] = "push" -> 1
    [] c[1] = "pop" -> -1
    [] c[1] \in {"add", "sub", "and", "or", "eq", "gt", "lt"} -> -1
    [] c[1] = "if-goto" -> -1
    [] c[1] = "function" -> int(c[3]).v
    [] OTHER -> 0

\* Pushed minus popped over the blocks met at entries 2 .. n of hist
RECURSIVE NetEffect(_)
NetEffect(n) ==
  IF n < 2 THEN 0
  ELSE NetEffect(n - 1)
       + (IF HasBlock(hist[n].pc) THEN DeltaCmd(CommandOf(BlockAt(hist[n].pc)))
          ELSE 0)

\* Pushed minus popped over the commands of the input
RECURSIVE NetOfCommands(_)
NetOfCommands(cmds) ==
  IF cmds = << >> THEN 0
  ELSE DeltaCmd(Head(cmds)) + NetOfCommands(Tail(cmds))

\* No call, return or jump among the blocks met at entries 2 .. n of hist
StraightLine(n) ==
  \A j \in 2 .. n :
    KindAt(hist[j].pc) \notin {"call", "return", "goto", "if-goto"}

\* The unit whose translation wrote write j
UnitOf(j) == Cardinality({ i \in 1 .. j : out[i].src = "header" })

\* The RAM address of cell index of a segment, given the RAM
CellAddress(mem, j, segment, index) ==
  CASE segment = "local" -> read(mem, 1) + index
    [] segment = "argument" -> read(mem, 2) + index
    [] segment = "this" -> read(mem, 3) + index
    [] segment = "that" -> read(mem, 4) + index
    [] segment = "temp" -> 5 + index
    [] segment = "pointer" -> 3 + index
    [] segment = "static" ->
         symbols[vm_files[UnitOf(j)].stem \o "." \o ToString(index)]

\* A pop has just run that was preceded by the push of the same cell
RoundTripDone ==
  /\ JustRan("pop")
  /\ Len(hist) >= 2
  /\ HasBlock(hist[Len(hist) - 1].pc)
  /\ LET jpop == BlockAt(hist[Len(hist)].pc)
         jpush == BlockAt(hist[Len(hist) - 1].pc)
     IN /\ jpush + 1 = jpop
        /\ CommandOf(jpush)[1] = "push"
        /\ CommandOf(jpush)[2] # "constant"
        /\ CommandOf(jpush)[2] = CommandOf(jpop)[2]
        /\ CommandOf(jpush)[3] = CommandOf(jpop)[3]

BeforePush == hist[Len(hist) - 1].ram

\* The address of the cell of the round trip
RoundTripCell ==
  LET j == BlockAt(hist[Len(hist)].pc)
  IN CellAddress(BeforePush, j, CommandOf(j)[2], int(CommandOf(j)[3]).v)

\* Entry n of hist is the first boundary after a comparison block
AfterComparison(n) ==
  /\ n >= 2
  /\ KindAt(hist[n - 1].pc) \in {"eq", "gt", "lt"}

\* What a comparison is to leave for the words x and y
Compared(operation, x, y) ==
  LET holds == CASE operation = "eq" -> to_signed(x) = to_signed(y)
                 [] operation = "gt" -> to_signed(x) > to_signed(y)
                 [] operation = "lt" -> to_signed(x) < to_signed(y)
  IN IF holds THEN 65535 ELSE 0

\* What a binary operation is to leave for the words x and y
BinaryResult(operation, x, y) ==
  CASE operation = "add" -> (x + y) % 65536
    [] operation = "sub" -> (x - y + 65536) % 65536
    [] operation = "and" -> BitAnd(x, y, 16)
    [] operation = "or" -> BitOr(x, y, 16)

\* What a unary operation is to leave for the word w
UnaryResult(operation, w) ==
  CASE operation = "neg" -> (65536 - w) % 65536
    [] operation = "not" -> 65535 - w

\* ------------------------------------------------------------------------
\* Observing a translation: the commands of the input, the blocks and the
\* label declarations of the output
\* ------------------------------------------------------------------------

\* The lines of the units, in the order in which translate() reads them
RECURSIVE AllLines(_)
AllLines(files) ==
  IF files = << >> THEN << >>
  ELSE Head(files).lines \o AllLines(Tail(files))

\* The commands of the input: the tokens of every line that is neither
\* blank nor a comment, without its trailing comment
CommandLines(files) ==
  LET ls == SelectSeq(AllLines(files), IsCommandLine)
  IN [i \in 1 .. Len(ls) |-> BeforeComment(ls[i])]

\* The blocks written by generate(), and the command each one names in its
\* leading comment line
Generated == SelectSeq(out, LAMBDA w : w.src = "generate")
GeneratedCommands == [j \in 1 .. Len(Generated) |-> Generated[j].asm[1].s]

\* The labels declared in the output file, in file order
LabelDecls ==
  LET ls == SelectSeq(Flatten(out), LAMBDA l : l.t = "L")
  IN [i \in 1 .. Len(ls) |-> ls[i].s]

NoDuplicates(seq) == \A i, j \in 1 .. Len(seq) : i # j => seq[i] # seq[j]

\* The function named by the latest function command among cmds[1 .. i],
\* "" when there is none
EnclosingFunction(cmds, i) ==
  LET fs == { k \in 1 .. i : cmds[k][1] = "function" }
  IN IF fs = {} THEN ""
     ELSE cmds[CHOOSE k \in fs : \A m \in fs : m <= k][2]

FunctionNames(files) ==
  LET cmds == CommandLines(files)
  IN { cmds[k][2] : k \in { m \in 1 .. Len(cmds) : cmds[m][1] = "function" } }

\* Function names pairwise distinct, user labels distinct within a function
WellNamed(files) ==
  LET cmds == CommandLines(files)
      At(kind) == { k \in 1 .. Len(cmds) : cmds[k][1] = kind }
  IN /\ \A i, j \in At("function") : i # j => cmds[i][2] # cmds[j][2]
     /\ \A i, j \in At("label") :
          (i # j /\ EnclosingFunction(cmds, i) = EnclosingFunction(cmds, j))
            => cmds[i][2] # cmds[j][2]

\* Number of comparison commands of the input
Comparisons(files) ==
  Len(SelectSeq(CommandLines(files), LAMBDA c : c[1] \in {"eq", "gt", "lt"}))

\* TRUE_k and END_k for k = 0 .. n-1
ComparisonLabels(n) ==
  { "TRUE_" \o ToString(k) : k \in 0 .. n - 1 }
  \cup { "END_" \o ToString(k) : k \in 0 .. n - 1 }

\* The commands translate() has read when the parser stands after line
\* current_line' of the unit it is in
CommandsRead(line) ==
  CommandLines(SubSeq(vm_files, 1, unit - 1))
  \o CommandLines(<< Unit(vm_files[unit].stem,
                          SubSeq(vm_files[unit].lines, 1, line)) >>)

\* The lines the parsers of the run have read: unit and line number
Consumed ==
  UNION { { << u, k >> :
              k \in 1 .. (IF u < unit THEN Len(vm_files[u].lines)
                          ELSE current_line) } : u \in 1 .. unit }

\* The tokens of line k of unit u, without its trailing comment
TokensAt(u, k) == BeforeComment(vm_files[u].lines[k])

\* Number of command lines among the first k lines of unit u
CommandsBefore(u, k) ==
  Cardinality({ m \in 1 .. k : IsCommandLine(vm_files[u].lines[m]) })

\* Number of blocks generate() wrote while unit u was translated
BlocksOf(u) ==
  Cardinality({ j \in 1 .. Len(out) :
                  out[j].src = "generate" /\ UnitOf(j) = u })

\* The line is rejected: translate() ended with the exception, at this
\* line, and no block was written for it
Rejected(u, k, exceptions) ==
  /\ phase = "failed"
  /\ error \in exceptions
  /\ u = unit /\ k = current_line
  /\ BlocksOf(u) <= CommandsBefore(u, k - 1)

\* A command as the language defines it: a known opcode with the operands
\* it takes, an index or count being an integer
WellFormed(parts) ==
  LET n == Len(parts) IN
  CASE parts[1] \in {"add", "sub", "neg", "eq", "gt", "lt", "and", "or",
                     "not", "return"} -> n = 1
    [] parts[1] \in {"push", "pop", "function", "call"} ->
         n = 3 /\ int(parts[3]).ok
    [] parts[1] \in {"label", "goto", "if-goto"} -> n = 2
    [] OTHER -> FALSE

\* A push, pop, function or call whose index or count is negative
NegativeOperand(parts) ==
  /\ parts[1] \in {"push", "pop", "function", "call"}
  /\ Len(parts) >= 3
  /\ int(parts[3]).ok
  /\ int(parts[3]).v < 0

\* A command the generator has no code for: a push or pop of a segment
\* outside the eight, an arithmetic operation outside the nine, or a type
\* outside the nine
Unsupported(c) ==
  /\ c # None
  /\ \/ /\ c.type \in {"push", "pop"}
        /\ c.segment \notin {"constant", "local", "argument", "this", "that",
                              "temp", "pointer", "static"}
     \/ /\ c.type = "arithmetic"
        /\ c.operation \notin {"add", "sub", "neg", "eq", "gt", "lt", "and",
                                "or", "not"}
     \/ c.type \notin {"arithmetic", "push", "pop", "label", "goto",
                        "if-goto", "function", "call", "return"}

\* The block of a push or pop of the pointer segment has just run
PointerDone(opcode) ==
  /\ JustRan(opcode)
  /\ CommandOf(BlockAt(hist[Len(hist)].pc))[2] = "pointer"

\* The index the block names, and the RAM when the block was entered
PointerIndex == int(CommandOf(BlockAt(hist[Len(hist)].pc))[3]).v
BeforeBlock == hist[Len(hist)].ram

\* The blocks of the output that push or pop a static cell
StaticBlocks ==
  { j \in 1 .. Len(out) :
      /\ out[j].src = "generate"
      /\ CommandOf(j)[1] \in {"push", "pop"}
      /\ CommandOf(j)[2] = "static" }

\* The symbol block j addresses, SP apart
SymbolOf(j) ==
  LET asm == out[j].asm
      i == CHOOSE k \in 1 .. Len(asm) : asm[k].t = "A" /\ asm[k].s # "SP"
  IN asm[i].s

\* The return label of the call command of write j: the last line of the
\* block
ReturnLabelOf(j) == out[j].asm[Len(out[j].asm)].s

\* Entry n of hist is the first boundary after the block of a call: the
\* code of the call has jumped
AfterCall(n) == n >= 2 /\ KindAt(hist[n - 1].pc) = "call"

\* The CPU is in the code of a return, or has just run it, and the call
\* that made the frame is known
InReturn ==
  /\ phase = "run"
  /\ hist # << >>
  /\ KindAt(hist[Len(hist)].pc) = "return"
  /\ MatchCall(Len(hist) - 1, 0) > 0

\* The address at which the call that made the frame is to be resumed
ReturnAddress == symbols[ReturnLabelOf(BlockAt(AtCall.pc))]

\* The write that holds the code of "function F k", and k
FunctionBlock(F) ==
  CHOOSE j \in 1 .. Len(out) :
    /\ out[j].src = "generate"
    /\ CommandOf(j)[1] = "function"
    /\ CommandOf(j)[2] = F

nLocalsOf(F) == int(CommandOf(FunctionBlock(F))[3]).v

\* The function called by the call met at entry m - 1 of hist
Callee(m) == CommandOf(BlockAt(hist[m - 1].pc))[2]

\* The writes that hold the code of call commands, in file order
CallBlocks ==
  SelectSeq([j \in 1 .. Len(out) |-> j],
            LAMBDA j : out[j].src = "generate" /\ CommandOf(j)[1] = "call")

\* Number of returns met at the entries of hist
ReturnsMet ==
  Cardinality({ m \in 1 .. Len(hist) : KindAt(hist[m].pc) = "return" })

\* The writes of the output file that hold the bootstrap
BootstrapWrites == { j \in 1 .. Len(out) : out[j].src = "init" }

\* The bootstrap has run: the CPU has reached the second command boundary
\* of the run, and the RAM it found there
Booted == phase = "run" /\ Len(hist) >= 2
AtEntry == hist[2].ram

\* The function in whose code write j stands: the one named by the latest
\* function command written before it
FunctionOf(j) ==
  LET fs == { i \in 1 .. j : out[i].src = "generate"
                              /\ CommandOf(i)[1] = "function" }
  IN IF fs = {} THEN ""
     ELSE CommandOf(CHOOSE i \in fs : \A k \in fs : k <= i)[2]

\* The ROM address of the label the goto or if-goto of write j names
TargetOf(j) == symbols[FunctionOf(j) \o "$" \o CommandOf(j)[2]]

\* The commands that work on the stack or jump within a function, and the
\* number of words each takes from the stack
StackCommands ==
  {"push", "pop", "add", "sub", "and", "or", "eq", "gt", "lt", "neg", "not",
   "goto", "if-goto"}

Operands(c) ==
  CASE c[1] \in {"add", "sub", "and", "or", "eq", "gt", "lt"} -> 2
    [] c[1] \in {"pop", "neg", "not", "if-goto"} -> 1
    [] OTHER -> 0

\* The RAM addresses the pop of write j stores to, given the RAM before
\* it; none for another command
StoresTo(mem, j) ==
  IF CommandOf(j)[1] = "pop"
  THEN { CellAddress(mem, j, CommandOf(j)[2], int(CommandOf(j)[3]).v) }
  ELSE {}

\* The stack words below the operands of the command of write j
BelowOperands(mem, j) == 256 .. sp(mem) - Operands(CommandOf(j)) - 1

\* ------------------------------------------------------------------------
\* Observing an assembly: the lines of the file that was assembled, the
\* words loaded into ROM
\* ------------------------------------------------------------------------

\* The program has just been assembled and loaded
Loaded == phase = "run" /\ cycles = 0

\* The lines of the assembled file that load a symbol: "@symbol"
SymbolUses(lines) ==
  { i \in 1 .. Len(lines) : lines[i].t = "A" /\ ~isdigit(lines[i].s) }

\* The line that declares label s, 0 when there is none
DeclLine(lines, s) ==
  IF \E j \in 1 .. Len(lines) : lines[j] = LInstr(s)
  THEN CHOOSE j \in 1 .. Len(lines) : lines[j] = LInstr(s)
  ELSE 0

\* The uses of labels, and the uses of variables: of symbols that are
\* neither predefined nor declared
LabelUses(lines) ==
  { i \in SymbolUses(lines) : DeclLine(lines, lines[i].s) > 0 }

VariableUses(lines) ==
  { i \in SymbolUses(lines) :
      /\ DeclLine(lines, lines[i].s) = 0
      /\ lines[i].s \notin DOMAIN SymbolTable_init }

\* The address the assembler put into the A-instruction of line i: the
\* ROM word of the line, the instruction lines counted from 0
Resolved(lines, i) == rom[InstrCount(SubSeq(lines, 1, i))]

\* The first line that uses the symbol of line i
FirstLine(lines, i) ==
  CHOOSE k \in SymbolUses(lines) :
    /\ lines[k].s = lines[i].s
    /\ \A m \in SymbolUses(lines) : lines[m].s = lines[i].s => k <= m

\* ------------------------------------------------------------------------
\* Claims
\* ------------------------------------------------------------------------

\* C1: when the code of "call F n" has run F, whose body leaves one word
\* more on the stack and ends in return, execution stands at the
\* instruction after the call, the word F left on top is on top of the
\* stack, and LCL, ARG, THIS and THAT hold the values they had right before
\* the call, whatever they held inside F.
C1_CallReturnRestoresFrame ==
  Returned =>
    /\ PC = block_addr[BlockAt(AtCall.pc) + 1]
    /\ top(ram) = top(AtReturn.ram)
    /\ \A cell \in 1 .. 4 : read(ram, cell) = read(AtCall.ram, cell)

\* C1 witness: a call has returned from a function that had changed THIS
\* and THAT, and LCL and ARG differed inside it as well
C1_Witness ==
  /\ Returned
  /\ \A cell \in 1 .. 4 : read(AtReturn.ram, cell) # read(AtCall.ram, cell)

\* C2 as stated: after the call has returned the stack is one word shorter
\* than before the n arguments were pushed.
C2_Original_OneShorter ==
  Returned =>
    sp(ram) = (sp(AtCall.ram) - nArgsOf(BlockAt(AtCall.pc))) - 1

\* C2 amended: after the call has returned the stack is one word longer
\* than before the n arguments were pushed: the n arguments are replaced
\* by the returned word.
C2_CallReturnStackDepth ==
  Returned =>
    sp(ram) = (sp(AtCall.ram) - nArgsOf(BlockAt(AtCall.pc))) + 1

\* C2 witness: a call with two arguments has returned
C2_Witness ==
  /\ Returned
  /\ nArgsOf(BlockAt(AtCall.pc)) = 2

C4_NoLabelDeclaredTwice == WellNamed(vm_files) => NoDuplicates(LabelDecls)

\* C5 as stated: when a run has translated an input with K comparison
\* commands, the output declares exactly the 2K labels TRUE_k and END_k,
\* k = 0 .. K-1, each once, and the label counter stands at K.
C5_TwoLabelsPerComparison ==
  phase = "closed" =>
    LET K == Comparisons(vm_files)
        decl == SelectSeq(LabelDecls,
                          LAMBDA l : l \in ComparisonLabels(Len(out)))
    IN /\ Len(decl) = 2 * K
       /\ NoDuplicates(decl)
       /\ { decl[i] : i \in 1 .. Len(decl) } = ComparisonLabels(K)
       /\ code_gen.label_counter = K

\* C6: whenever translate() writes the block of a label, goto or if-goto
\* command, the one symbol the block declares (label) or jumps to (goto,
\* if-goto) is "<f>$<label>", f being the function named by the latest
\* function command read so far in the run; it is the scoped name of no
\* other function of the input.
C6_LabelsScopedToEnclosingFunction ==
  [][ ( /\ phase = "unit"
        /\ Len(out') = Len(out) + 1
        /\ out'[Len(out')].src = "generate"
        /\ current_command'.type \in {"label", "goto", "if-goto"} )
      => LET cmds == CommandsRead(current_line')
             f == EnclosingFunction(cmds, Len(cmds))
             label == current_command'.label
             emitted == SelectSeq(out'[Len(out')].asm,
                                  LAMBDA l : l.t \in {"A", "L"} /\ l.s # "SP")
         IN /\ Len(emitted) = 1
            /\ emitted[1].t =
                 (IF current_command'.type = "label" THEN "L" ELSE "A")
            /\ emitted[1].s = f \o "$" \o label
            /\ \A other \in FunctionNames(vm_files) \ {f} :
                 emitted[1].s # other \o "$" \o label
    ]_vars

\* C6 witness: label L is declared in Main.f and in Main.g, and a goto L
\* of Main.f has been translated
C6_Witness ==
  LET ls == Flatten(out)
      Has(l) == \E i \in 1 .. Len(ls) : ls[i] = l
  IN /\ Has(LInstr("Main.f$L"))
     /\ Has(LInstr("Main.g$L"))
     /\ Has(AInstr("Main.f$L"))

\* C7 as stated: when translate() has finished, the blocks it wrote are,
\* in order, those of the lines of the input that are neither blank nor
\* comments, one block per line.
C7_OneBlockPerCommandLine ==
  phase = "closed" => GeneratedCommands = CommandLines(vm_files)

\* C8: when a new VMTranslator has translated the input that an earlier
\* instance translated, the output file is what the earlier instance wrote.
C8_FreshInstancesSameOutput ==
  (phase = "closed" /\ prev_out # << >>) => out = prev_out

\* C8 witness: the second instance has finished an input with comparisons
\* and calls, so that both counters were used in both runs
C8_Witness ==
  /\ phase = "closed"
  /\ prev_out # << >>
  /\ code_gen.label_counter > 0
  /\ code_gen.return_counter > 0

\* C9: when the code of "push s i" and then that of "pop s i" has run, s
\* one of local, argument, this, that, temp, pointer and static, the cell
\* holds the word it held before the push and SP is where it was.
C9_PushPopRoundTrip ==
  RoundTripDone =>
    /\ read(ram, RoundTripCell) = read(BeforePush, RoundTripCell)
    /\ sp(ram) = sp(BeforePush)

\* C9 witness: local 2, holding the word 65535, has been pushed and popped
C9_Witness ==
  /\ RoundTripDone
  /\ CommandOf(BlockAt(hist[Len(hist)].pc)) = Pop("local", 2)
  /\ read(BeforePush, RoundTripCell) = 65535

\* C10 as stated: eq, gt and lt replace the words x (pushed first) and y
\* (pushed second) by 65535 (-1) when x = y, x > y, x < y holds for the
\* signed values, and by 0 otherwise.
C10_ComparisonsSigned ==
  \A n \in 1 .. Len(hist) :
    AfterComparison(n) =>
      LET before == hist[n - 1].ram
          after == hist[n].ram
      IN /\ sp(after) = sp(before) - 1
         /\ top(after) =
              Compared(KindAt(hist[n - 1].pc),
                       read(before, sp(before) - 2),
                       read(before, sp(before) - 1))

\* C11: add, sub, and, or replace the words x (pushed first) and y (pushed
\* second) by x+y, x-y, x&y, x|y modulo 2^16, one word less on the stack;
\* neg and not replace the top word w by -w modulo 2^16 and by the
\* complement of w, the stack as long as it was.
C11_ArithmeticResults ==
  \A n \in 2 .. Len(hist) :
    LET operation == KindAt(hist[n - 1].pc)
        before == hist[n - 1].ram
        after == hist[n].ram
    IN /\ operation \in {"add", "sub", "and", "or"} =>
            /\ sp(after) = sp(before) - 1
            /\ top(after) = BinaryResult(operation,
                                         read(before, sp(before) - 2),
                                         read(before, sp(before) - 1))
       /\ operation \in {"neg", "not"} =>
            /\ sp(after) = sp(before)
            /\ top(after) = UnaryResult(operation, top(before))

\* C11 witness: push constant 7, push constant 8, add has left 15 on top
C11_Witness ==
  /\ phase = "run" /\ PC = ROM_SIZE
  /\ Len(hist) >= 2
  /\ KindAt(hist[Len(hist) - 1].pc) = "add"
  /\ read(hist[Len(hist) - 1].ram, sp(ram) - 1) = 7
  /\ read(hist[Len(hist) - 1].ram, sp(ram)) = 8
  /\ top(ram) = 15

\* C12 as stated: every line read whose opcode is unknown or whose operands
\* have the wrong count or type ends the translation with a parse error at
\* that line, and no command is generated for it.
C12_MalformedLineRejected ==
  \A c \in Consumed :
    (IsCommandLine(vm_files[c[1]].lines[c[2]])
       /\ ~WellFormed(TokensAt(c[1], c[2])))
      => Rejected(c[1], c[2], {"ValueError", "IndexError"})

\* C13 as stated: every push, pop, function or call read with a negative
\* index or count ends the translation with a parse error at that line, and
\* no block is generated for it.
C13_NegativeOperandRejected ==
  \A c \in Consumed :
    (IsCommandLine(vm_files[c[1]].lines[c[2]])
       /\ NegativeOperand(TokensAt(c[1], c[2])))
      => Rejected(c[1], c[2], {"ValueError", "IndexError"})

\* C14: the step of translate() that reads a line "pop constant i" ends
\* the translation with the ValueError of generate_pop, writes nothing to
\* the output and leaves the fields of the CodeGenerator as they were.
C14_PopConstantRaises ==
  [][ ( /\ phase = "unit"
        /\ current_line' > current_line
        /\ IsCommandLine(vm_files[unit].lines[current_line'])
        /\ Len(TokensAt(unit, current_line')) >= 3
        /\ TokensAt(unit, current_line')[1] = "pop"
        /\ TokensAt(unit, current_line')[2] = "constant"
        /\ int(TokensAt(unit, current_line')[3]).ok )
      => /\ phase' = "failed"
         /\ error' = "ValueError"
         /\ out' = out
         /\ code_gen' = code_gen
    ]_vars

\* C14 witness: "pop constant 7" has ended a translation in which a
\* comparison and a call had advanced both counters
C14_Witness ==
  /\ phase = "failed"
  /\ error = "ValueError"
  /\ current_command = [type |-> "pop", segment |-> "constant", index |-> 7]
  /\ code_gen.label_counter = 1
  /\ code_gen.return_counter = 1

\* C15 as stated: when a command the generator has no code for has reached
\* it, the translation has failed and generate() raises an error for the
\* command.
C15_UnsupportedCommandRaises ==
  Unsupported(current_command) =>
    /\ phase = "failed"
    /\ generate(code_gen, current_command).err # ""

\* C16 as stated: when translate() has ended with an error, the output
\* holds no block of the unit in which the error arose.
C16_NoPartialOutput == phase = "failed" => BlocksOf(unit) = 0

\* C17: while translate() runs the file is open, when it has ended,
\* normally or with an error of the parser or of the generator, the file is
\* closed, and open() was called once in the run; before translate() is
\* called the instance has no stream.
C17_StreamOpenedOnceAndClosed ==
  /\ phase \in {"start", "ready"} => stream = NoStream
  /\ phase \in {"open", "unit"} => stream = [opens |-> 1, is_open |-> TRUE]
  /\ phase \in {"closed", "failed"} =>
       stream = [opens |-> 1, is_open |-> FALSE]

\* C17 witness: an error of the generator has ended translate() in the
\* second unit, after blocks were written
C17_Witness ==
  /\ phase = "failed"
  /\ error \in {"ValueError", "TypeError"}
  /\ current_command # None /\ current_command.type = "pop"
  /\ unit = 2
  /\ BlocksOf(2) > 0
  /\ ~stream.is_open

\* C18 as stated: two blocks that push or pop a static cell address the
\* same symbol exactly when they come from the same unit and name the same
\* index.
C18_StaticSymbolPerUnitAndIndex ==
  \A i, j \in StaticBlocks :
    (UnitOf(i) = UnitOf(j) /\ CommandOf(i)[3] = CommandOf(j)[3])
      <=> SymbolOf(i) = SymbolOf(j)

\* C19: "pop pointer 0" stores the popped word in RAM[3] (THIS) and "pop
\* pointer 1" in RAM[4] (THAT); "push pointer 0" and "push pointer 1" push
\* the word RAM[3] and RAM[4] hold, not the word at the address they hold;
\* the other of the two cells keeps its word.
C19_PointerIsThisThatCell ==
  /\ PointerDone("pop") =>
       /\ read(ram, 3 + PointerIndex) = top(BeforeBlock)
       /\ read(ram, 4 - PointerIndex) = read(BeforeBlock, 4 - PointerIndex)
       /\ sp(ram) = sp(BeforeBlock) - 1
  /\ PointerDone("push") =>
       /\ top(ram) = read(BeforeBlock, 3 + PointerIndex)
       /\ read(ram, 3) = read(BeforeBlock, 3)
       /\ read(ram, 4) = read(BeforeBlock, 4)
       /\ sp(ram) = sp(BeforeBlock) + 1

\* C19 witness: "push pointer 1" has pushed the 2 that THAT holds, while
\* the cell at address 2 holds another word and THIS holds 2048
C19_Witness ==
  /\ PointerDone("push")
  /\ PointerIndex = 1
  /\ top(ram) = 2
  /\ read(BeforeBlock, 3) = 2048
  /\ read(ram, 2) # 2

\* C20 as stated: whenever translate() has been entered and has not
\* started on a unit yet, the label counter and the call-site counter are 0
\* and there is no current function, whatever runs came before.
C20_RunStartsWithFreshState ==
  phase = "open" =>
    /\ code_gen.label_counter = 0
    /\ code_gen.return_counter = 0
    /\ code_gen.current_function = ""

\* C21: in the program the assembler has produced, every use of a label
\* holds the number of instructions that stand before the declaration of
\* the label, declarations taking no slot, whether the use stands before
\* or after the declaration; the symbols that are neither predefined nor
\* labels hold the addresses 16, 17, ... in the order of their first use,
\* one address per symbol, the same at every use of it.
C21_LabelsAndVariablesResolved ==
  Loaded =>
    LET lines == Flatten(out)
        vs == VariableUses(lines)
    IN /\ \A i \in LabelUses(lines) :
            Resolved(lines, i) =
              InstrCount(SubSeq(lines, 1, DeclLine(lines, lines[i].s)))
       /\ \A i, j \in vs :
            /\ lines[i].s = lines[j].s <=>
                 Resolved(lines, i) = Resolved(lines, j)
            /\ FirstLine(lines, i) < FirstLine(lines, j) =>
                 Resolved(lines, i) < Resolved(lines, j)
       /\ { Resolved(lines, i) : i \in vs } =
            16 .. 15 + Cardinality({ lines[i].s : i \in vs })

\* C21 witness: a loaded program that jumps back to a label and forward
\* to another one, and uses four variables, one of them again after
\* another variable was first used
C21_Witness ==
  /\ Loaded
  /\ LET lines == Flatten(out)
         vs == VariableUses(lines)
     IN /\ \E i \in LabelUses(lines) : DeclLine(lines, lines[i].s) < i
        /\ \E i \in LabelUses(lines) : DeclLine(lines, lines[i].s) > i
        /\ Cardinality({ lines[i].s : i \in vs }) = 4
        /\ \E i, j, k \in vs :
             /\ i < j /\ j < k
             /\ lines[i].s = lines[k].s
             /\ lines[j].s # lines[i].s
             /\ FirstLine(lines, j) = j

\* C22 as stated: the step of translate() that reads a label, goto or
\* if-goto command while no function command has been generated in the run
\* (the generator has no current function) ends the translation with an
\* error and writes nothing to the output.
C22_FlowOutsideFunctionRaises ==
  [][ ( /\ phase = "unit"
        /\ current_line' > current_line
        /\ IsCommandLine(vm_files[unit].lines[current_line'])
        /\ Len(TokensAt(unit, current_line')) = 2
        /\ TokensAt(unit, current_line')[1] \in {"label", "goto", "if-goto"}
        /\ code_gen.current_function = "" )
      => /\ phase' = "failed"
         /\ error' # ""
         /\ out' = out
    ]_vars

\* C23: when the code of "call F n", entered with SP = S, has jumped, the
\* CPU stands at the entry of F, RAM[S] holds the address of the return
\* label of the call, RAM[S+1 .. S+4] hold the LCL, ARG, THIS and THAT of
\* the caller, ARG is S - n, and LCL and SP are S + 5.
C23_CallBuildsFrame ==
  \A m \in 2 .. Len(hist) :
    AfterCall(m) =>
      LET before == hist[m - 1].ram
          at == hist[m].ram
          S == sp(before)
          j == BlockAt(hist[m - 1].pc)
      IN /\ hist[m].pc = symbols[CommandOf(j)[2]]
         /\ read(at, S) = symbols[ReturnLabelOf(j)]
         /\ \A k \in 1 .. 4 : read(at, S + k) = read(before, k)
         /\ read(at, 2) = S - nArgsOf(j)
         /\ read(at, 1) = S + 5
         /\ sp(at) = S + 5

\* C23 witness: a call with two arguments has jumped, made by a caller
\* whose four pointers hold four different words, none of them 0
C23_Witness ==
  \E m \in 2 .. Len(hist) :
    /\ AfterCall(m)
    /\ nArgsOf(BlockAt(hist[m - 1].pc)) = 2
    /\ Cardinality({ read(hist[m - 1].ram, k) : k \in 1 .. 4 } \ {0}) = 4

\* C24: while the code of a return runs, once the frame word at FRAME-5
\* no longer holds the return address the scratch cell R14 holds it; and
\* when the return of a function called with 0 arguments has run, where
\* *ARG is the slot of the saved return address, the CPU stands at the
\* instruction after the call, and the word the function left on top is
\* in that slot, on top of the stack of the caller.
C24_ReturnAddressSavedFirst ==
  /\ InReturn =>
       (read(ram, read(AtReturn.ram, 1) - 5) # ReturnAddress
          => read(ram, 14) = ReturnAddress)
  /\ (Returned /\ nArgsOf(BlockAt(AtCall.pc)) = 0) =>
       /\ read(AtReturn.ram, 2) = read(AtReturn.ram, 1) - 5
       /\ PC = ReturnAddress
       /\ PC = block_addr[BlockAt(AtCall.pc) + 1]
       /\ sp(ram) = sp(AtCall.ram) + 1
       /\ top(ram) = top(AtReturn.ram)
       /\ read(ram, sp(AtCall.ram)) = top(AtReturn.ram)

\* C24 witness: a function called with 0 arguments has returned the word
\* 8, which has taken the place of the saved return address
C24_Witness ==
  /\ Returned
  /\ nArgsOf(BlockAt(AtCall.pc)) = 0
  /\ read(AtReturn.ram, read(AtReturn.ram, 2)) = ReturnAddress
  /\ read(ram, read(AtReturn.ram, 2)) = 8
  /\ top(ram) = 8

\* C25: the code of "function F k" is the entry label (F) and 5k
\* instructions, none for k = 0.  When a call has jumped to F, SP = LCL;
\* at the first command boundary after the k pushes LCL is what it was,
\* SP = LCL + k and the cells LCL .. LCL + k - 1 hold 0, whatever they held
\* when F was entered.
C25_FunctionZeroesLocals ==
  \A m \in 2 .. Len(hist) :
    AfterCall(m) =>
      LET F == Callee(m)
          j == FunctionBlock(F)
          k == nLocalsOf(F)
          entry == hist[m].ram
          LCL == read(entry, 1)
      IN /\ out[j].asm[2] = LInstr(F)
         /\ hist[m].pc = block_addr[j]
         /\ BlockLen(j) = 5 * k
         /\ sp(entry) = LCL
         /\ (k > 0 /\ Len(hist) > m) =>
              LET after == hist[m + 1].ram
              IN /\ hist[m + 1].pc = block_addr[j + 1]
                 /\ read(after, 1) = LCL
                 /\ sp(after) = LCL + k
                 /\ \A i \in 0 .. k - 1 : read(after, LCL + i) = 0

\* C25 witness: a function with two locals was entered when both cells
\* held other words than 0, and has pushed its locals
C25_Witness ==
  \E m \in 2 .. Len(hist) - 1 :
    /\ AfterCall(m)
    /\ nLocalsOf(Callee(m)) = 2
    /\ read(hist[m].ram, read(hist[m].ram, 1)) # 0
    /\ read(hist[m].ram, read(hist[m].ram, 1) + 1) # 0
    /\ sp(hist[m + 1].ram) = read(hist[m].ram, 1) + 2

\* C26: when translate() has finished, the i-th call command of the input
\* has the return label "<F>$ret.<i-1>", F the function it calls, and the
\* call-site counter stands at the number of call commands; in a run with
\* nested and recursive calls every return leaves the CPU at the
\* instruction after the call that made the frame it pops, calls and
\* returns matched last-in first-out; the run ends before the cycle bound,
\* and that of the recursive factorial of 5 ends with 120 on top of the
\* stack.
C26_ReturnsMatchCalls ==
  /\ phase = "closed" =>
       /\ \A i \in 1 .. Len(CallBlocks) :
            ReturnLabelOf(CallBlocks[i]) =
              CommandOf(CallBlocks[i])[2] \o "$ret." \o ToString(i - 1)
       /\ code_gen.return_counter = Len(CallBlocks)
  /\ Returned =>
       /\ PC = symbols[ReturnLabelOf(BlockAt(AtCall.pc))]
       /\ PC = block_addr[BlockAt(AtCall.pc) + 1]
  /\ phase = "run" => cycles < MaxCycles
  /\ (phase = "run" /\ PC = ROM_SIZE /\ vm_files \in FactorialUnits) =>
       top(ram) = 120

\* C26 witness: the run of the factorial of 5 has ended with 120 on top
\* of the stack, after nine returns
C26_Witness ==
  /\ phase = "run" /\ PC = ROM_SIZE
  /\ vm_files \in FactorialUnits
  /\ ReturnsMet = 9
  /\ top(ram) = 120

\* C27: from the moment translate() has opened the file, the output holds
\* the bootstrap once, as its first write, before the header and the code
\* of every unit; when the bootstrap has run, the CPU stands at the entry
\* of Sys.init with RAM[256] = the address of the return label of the
\* bootstrap, RAM[257 .. 260] = 0, ARG = 256, LCL = SP = 261, and THIS and
\* THAT as the reset left them.
C27_BootstrapOnceThenSysInit ==
  /\ stream.opens > 0 => BootstrapWrites = {1}
  /\ Booted =>
       /\ hist[1].pc = 0
       /\ hist[2].pc = symbols["Sys.init"]
       /\ read(AtEntry, 256) = symbols["Sys.init$ret.bootstrap"]
       /\ read(AtEntry, 256) = block_addr[2]
       /\ \A a \in 257 .. 260 : read(AtEntry, a) = 0
       /\ read(AtEntry, 2) = 256
       /\ read(AtEntry, 1) = 261
       /\ sp(AtEntry) = 261
       /\ read(AtEntry, 3) = 0 /\ read(AtEntry, 4) = 0

\* C27 witness: the bootstrap of a program of two units has run; the code
\* of both units stands after it and Sys.init, in the second unit, was
\* entered
C27_Witness ==
  /\ Booted
  /\ Len(vm_files) = 2
  /\ BlocksOf(1) > 0 /\ BlocksOf(2) > 0
  /\ hist[2].pc = block_addr[FunctionBlock("Sys.init")]
  /\ hist[2].pc > block_addr[3]
  /\ sp(AtEntry) = 261

\* C28: when the code of "if-goto L" has run, SP is one less than before,
\* and the CPU stands at the label L of the enclosing function when the
\* word that was on top is not 0, be it positive or negative, and at the
\* next command when it is 0.
C28_IfGotoBranchesOnNonZero ==
  \A m \in 2 .. Len(hist) :
    KindAt(hist[m - 1].pc) = "if-goto" =>
      LET before == hist[m - 1].ram
          j == BlockAt(hist[m - 1].pc)
      IN /\ sp(hist[m].ram) = sp(before) - 1
         /\ hist[m].pc = IF top(before) # 0 THEN TargetOf(j)
                          ELSE block_addr[j + 1]

\* C28 witness: an if-goto has found a negative word on top and has
\* jumped over the next command to its label
C28_Witness ==
  \E m \in 2 .. Len(hist) :
    /\ KindAt(hist[m - 1].pc) = "if-goto"
    /\ top(hist[m - 1].ram) >= 32768
    /\ hist[m].pc = TargetOf(BlockAt(hist[m - 1].pc))
    /\ hist[m].pc > block_addr[BlockAt(hist[m - 1].pc) + 1]

\* C29 as stated: the code of a push raises SP by 1, that of a pop, a
\* binary operation, a comparison or an if-goto lowers it by 1, that of a
\* unary operation or a goto leaves it, and none of them changes a stack
\* word below the operands of the command.
C29_Original_NothingBelowChanges ==
  \A m \in 2 .. Len(hist) :
    KindAt(hist[m - 1].pc) \in StackCommands =>
      LET before == hist[m - 1].ram
          after == hist[m].ram
          j == BlockAt(hist[m - 1].pc)
      IN /\ sp(after) = sp(before) + DeltaCmd(CommandOf(j))
         /\ \A a \in BelowOperands(before, j) :
              read(after, a) = read(before, a)

\* C29 amended: SP moves as stated, a pop that stores to RAM[0] apart, and
\* no command changes a stack word below its operands other than the cell
\* a pop stores to.
C29_OnlyPopCellChanges ==
  \A m \in 2 .. Len(hist) :
    KindAt(hist[m - 1].pc) \in StackCommands =>
      LET before == hist[m - 1].ram
          after == hist[m].ram
          j == BlockAt(hist[m - 1].pc)
      IN /\ 0 \notin StoresTo(before, j) =>
              sp(after) = sp(before) + DeltaCmd(CommandOf(j))
         /\ \A a \in BelowOperands(before, j) \ StoresTo(before, j) :
              read(after, a) = read(before, a)

\* C29 witness: a pop has stored to a local that lies in the stack below
\* the popped word, with stack words under and over the local
C29_Witness ==
  \E m \in 2 .. Len(hist) :
    /\ KindAt(hist[m - 1].pc) = "pop"
    /\ LET before == hist[m - 1].ram
           j == BlockAt(hist[m - 1].pc)
       IN \E a \in StoresTo(before, j) :
            /\ a > 261 /\ a < sp(before) - 2
            /\ read(hist[m].ram, a) # read(before, a)
            /\ sp(hist[m].ram) = sp(before) - 1

\* C30: when "call F n", entered with SP = S, has run F and F has
\* returned, SP is S - n + 1, the word F left on top stands at S - n in
\* place of the first argument, and every stack word below S - n, the
\* locals, the working stack and the saved frame of the caller, is what it
\* was at the call; F writes to its locals, its arguments, its working
\* stack and the pointers THIS and THAT only.
C30_CallReturnFrameEffect ==
  Returned =>
    LET S == sp(AtCall.ram)
        n == nArgsOf(BlockAt(AtCall.pc))
    IN /\ sp(ram) = S - n + 1
       /\ read(ram, S - n) = top(AtReturn.ram)
       /\ \A a \in 256 .. S - n - 1 : read(ram, a) = read(AtCall.ram, a)

\* C30 witness: a function called with two arguments has stored to its
\* argument 0 and has returned; the word 8 of the caller stands right
\* below the returned word
C30_Witness ==
  /\ Returned
  /\ nArgsOf(BlockAt(AtCall.pc)) = 2
  /\ read(AtReturn.ram, sp(AtCall.ram) - 2) # read(AtCall.ram, sp(AtCall.ram) - 2)
  /\ read(ram, sp(ram) - 2) = 8
  /\ read(ram, 256) = symbols["Sys.init$ret.bootstrap"]

====
